---------------------------- MODULE Spec2Model ----------------------------
(***************************************************************************)
(* Model of the room / ceiling-height extractor of src/app.py.             *)
(*                                                                         *)
(* Text.  A text is a sequence of tokens, the maximal runs of the text     *)
(* that the regular expressions of the program tell apart: a word (kept    *)
(* in its case-folded form, all patterns are compiled with (?i)), a        *)
(* punctuation mark, or a numeral (a run of decimal digits, kept as its    *)
(* digits so that int() and str() are real conversions).  White space      *)
(* between tokens is not kept: every pattern of the program that crosses   *)
(* a token border allows \s* there, and line texts are strip()ped.  A      *)
(* word is a token of its own where the text delimits it (\b on both       *)
(* sides), as in every text the inputs below are drawn from.               *)
(*                                                                         *)
(* Each function of the program is an operator of the same name; the       *)
(* specifications apply them to inputs drawn from bounded sets.  Of the    *)
(* workbook api_extract answers with, the rows of "Raw Data" are kept;     *)
(* the pivot of "Matrix View" is not modelled.                             *)
(*                                                                         *)
(* Optional values (Python's None, a key a dict does not have) are         *)
(* sequences of length 0 or 1.                                             *)
(***************************************************************************)
EXTENDS Integers, Sequences, FiniteSets, TLC

VARIABLES
    pc,             \* position of the operation of the specification at hand
    pdf,            \* the document handed to extract_from_pdf_bytes
    filename,       \* its file name
    text_elements,  \* the fragment list
    element,        \* loop variable of find_ceiling_heights
    scanned,        \* number of iterations of that loop so far
    rooms,          \* result of find_rooms / argument of the matcher
    heights,        \* result of find_ceiling_heights / argument of the matcher
    matches,        \* result of match_rooms_with_heights
    title,          \* result of extract_drawing_title
    rows,           \* result of extract_from_pdf_bytes
    files,          \* request.files.getlist('files') of api_extract
    idx,            \* position of api_extract's loop over files
    combined_data,  \* api_extract's list of data frames
    response        \* what api_extract answers

vars == <<pc, pdf, filename, text_elements, element, scanned, rooms, heights,
          matches, title, rows, files, idx, combined_data, response>>

-----------------------------------------------------------------------------
(* Bounds of the model *)

MaxRooms == 2
MaxHeights == 2
MaxTokens == 4
MaxScan == 2
MaxTitleElems == 3
MaxFrags == 4
MaxPages == 2
MaxFiles == 2

-----------------------------------------------------------------------------
(* Tokens and texts *)

W(s) == [w |-> s, d |-> <<>>]
N(ds) == [w |-> "", d |-> ds]
IsNum(t) == t.d # <<>>
Min(a, b) == IF a <= b THEN a ELSE b

RECURSIVE IntOf(_)
IntOf(ds) ==
    IF ds = <<>> THEN 0
    ELSE 10 * IntOf(SubSeq(ds, 1, Len(ds) - 1)) + ds[Len(ds)]

RECURSIVE StrOf(_)
StrOf(n) ==
    IF n < 10 THEN <<n>> ELSE Append(StrOf(n \div 10), n % 10)

(* \d{3,4}: greedy, so the first four digits of a longer run *)
Digits34(t) == IsNum(t) /\ Len(t.d) >= 3
Group34(t) == SubSeq(t.d, 1, Min(4, Len(t.d)))

RECURSIVE Flatten(_)
Flatten(ss) ==
    IF ss = <<>> THEN <<>> ELSE Head(ss) \o Flatten(Tail(ss))

RECURSIVE SeqsUpTo(_, _)
SeqsUpTo(S, n) ==
    IF n = 0 THEN {<<>>}
    ELSE LET shorter == SeqsUpTo(S, n - 1)
         IN  shorter \cup {Append(s, x) : s \in {t \in shorter : Len(t) = n - 1}, x \in S}

-----------------------------------------------------------------------------
(* The compiled patterns, src/app.py lines 18-22.  A search returns the     *)
(* optional match of the leftmost position, as re.search does.              *)

None == <<>>
Some(v) == <<v>>

RoomWords ==
    {"BEDROOM", "BED", "KITCHEN", "LIVING", "DINING", "BATH", "TOILET",
     "BALCONY", "MASTER", "GUEST", "ROOM"}
AfflWords == {"AFFL", "FFL", "LEVEL"}
HeightWords == {"CEILING", "HEIGHT", "C.H.", "CH"}
Letters == {"A", "B", "C"}

(* the leftmost of the positions a pattern matches at, 0 when there is none *)
Leftmost(hits) ==
    IF hits = {} THEN 0 ELSE CHOOSE i \in hits : \A j \in hits : i <= j

(* \b(BEDROOM|...|ROOM)\b *)
ROOM_REGEX(text) == \E i \in 1..Len(text) : text[i].w \in RoomWords

(* position of what follows token i after \s* sep? \s* *)
After(text, i, sep) ==
    IF i + 1 <= Len(text) /\ text[i + 1] = W(sep) THEN i + 2 ELSE i + 1

(* (?:AFFL|FFL|LEVEL)\s*\+?\s*(\d{3,4}) *)
AfflAt(text, i) ==
    /\ text[i].w \in AfflWords
    /\ After(text, i, "+") <= Len(text)
    /\ Digits34(text[After(text, i, "+")])
AFFL_REGEX(text) ==
    LET i == Leftmost({k \in 1..Len(text) : AfflAt(text, k)})
    IN  IF i = 0 THEN None ELSE Some(Group34(text[After(text, i, "+")]))

(* (?:CEILING|HEIGHT|C\.H\.|CH)\s*:?\s*(\d{3,4})\s*(?:MM)? *)
HeightAt(text, i) ==
    /\ text[i].w \in HeightWords
    /\ After(text, i, ":") <= Len(text)
    /\ Digits34(text[After(text, i, ":")])
HEIGHT_REGEX(text) ==
    LET i == Leftmost({k \in 1..Len(text) : HeightAt(text, k)})
    IN  IF i = 0 THEN None ELSE Some(Group34(text[After(text, i, ":")]))

(* ^\d{3,4}$ on text.strip() *)
NumericMatch(text) ==
    Len(text) = 1 /\ IsNum(text[1]) /\ Len(text[1].d) \in 3..4

(* (?:DRAWING\s*TITLE|TITLE|DWG\s*TITLE)\s*:?\s*(.+): the colon is taken   *)
(* as the separator only when something follows it, else (.+) takes it      *)
TitleFrom(text, i) ==
    IF i + 2 <= Len(text) /\ text[i + 1] = W(":") THEN i + 2 ELSE i + 1
TitleAt(text, i) == text[i].w = "TITLE" /\ TitleFrom(text, i) <= Len(text)
DRAWING_TITLE_REGEX(text) ==
    LET i == Leftmost({k \in 1..Len(text) : TitleAt(text, k)})
    IN  IF i = 0 THEN None
        ELSE Some(SubSeq(text, TitleFrom(text, i), Len(text)))

(* (floor\s*plan|ceiling\s*plan|rcp|reflected) *)
PlanKeyword(text) ==
    \E i \in 1..Len(text) :
        \/ text[i].w \in {"RCP", "REFLECTED"}
        \/ /\ text[i].w \in {"FLOOR", "CEILING"}
           /\ i + 1 <= Len(text)
           /\ text[i + 1].w = "PLAN"

(* \b(\d+\s*BED\s*TYPE\s*[A-Z]|TYPE\s*[A-Z]\s*\d+\s*BED)\b *)
AptAt(text, i) ==
    /\ i + 3 <= Len(text)
    /\ \/ /\ IsNum(text[i]) /\ text[i + 1].w = "BED"
          /\ text[i + 2].w = "TYPE" /\ text[i + 3].w \in Letters
       \/ /\ text[i].w = "TYPE" /\ text[i + 1].w \in Letters
          /\ IsNum(text[i + 2]) /\ text[i + 3].w = "BED"
APT_REGEX(text) ==
    LET i == Leftmost({k \in 1..Len(text) : AptAt(text, k)})
    IN  IF i = 0 THEN None ELSE Some(SubSeq(text, i, i + 3))

(* \bTYPE\s*[A-Z]\b and \bBED\b *)
TypeAndBed(text) ==
    /\ \E i \in 1..(Len(text) - 1) :
           text[i].w = "TYPE" /\ text[i + 1].w \in Letters
    /\ \E i \in 1..Len(text) : text[i].w = "BED"

-----------------------------------------------------------------------------
(* The classifier *)

(* a variant that tests the plan keywords before the title label *)
RECURSIVE TitleKeywordFirst(_)
TitleKeywordFirst(elems) ==
    IF elems = <<>> THEN <<W("Unknown Drawing")>>
    ELSE LET text == Head(elems).text
             match == DRAWING_TITLE_REGEX(text)
         IN  IF PlanKeyword(text) THEN text
             ELSE IF match # None THEN match[1]
             ELSE TitleKeywordFirst(Tail(elems))

RECURSIVE extract_drawing_title(_)
extract_drawing_title(elems) ==
    IF elems = <<>> THEN <<W("Unknown Drawing")>>
    ELSE LET text == Head(elems).text
             match == DRAWING_TITLE_REGEX(text)
         IN  IF match # None THEN match[1]
             ELSE IF PlanKeyword(text) THEN text
             ELSE extract_drawing_title(Tail(elems))

RECURSIVE AptFirst(_)
AptFirst(elems) ==
    IF elems = <<>> THEN None
    ELSE IF APT_REGEX(Head(elems).text) # None THEN APT_REGEX(Head(elems).text)
    ELSE AptFirst(Tail(elems))

RECURSIVE AptFallback(_)
AptFallback(elems) ==
    IF elems = <<>> THEN <<W("Unknown Type")>>
    ELSE IF TypeAndBed(Head(elems).text) THEN Head(elems).text
    ELSE AptFallback(Tail(elems))

extract_apartment_type(elems) ==
    IF AptFirst(elems) # None THEN AptFirst(elems)[1] ELSE AptFallback(elems)

(* a variant without the upper limit *)
InRangeNoUpper(v) == 2000 <= v

InRange(v) == 2000 <= v /\ v <= 4000

(* a variant that does not copy the element's coordinates *)
CandidateAtOrigin(e, v, display, pattern) ==
    [text |-> display, x |-> 0, y |-> 0, page |-> e.page,
     is_line |-> e.is_line, val |-> v, matched_pattern |-> pattern]

Candidate(e, v, display, pattern) ==
    [text |-> display, x |-> e.x, y |-> e.y, page |-> e.page,
     is_line |-> e.is_line, val |-> v, matched_pattern |-> pattern]

PlusText(v) == <<W("+"), N(StrOf(v))>>
MmText(v) == <<N(StrOf(v)), W("mm")>>

(* the candidates the second and third test of the loop body append *)
LowerFamilies(e) ==
    LET hm == HEIGHT_REGEX(e.text)
        labeled ==
            IF hm # None /\ InRange(IntOf(hm[1]))
            THEN <<Candidate(e, IntOf(hm[1]), MmText(IntOf(hm[1])), "HEIGHT")>>
            ELSE <<>>
        bare ==
            IF NumericMatch(e.text) /\ InRange(IntOf(e.text[1].d))
            THEN <<Candidate(e, IntOf(e.text[1].d), MmText(IntOf(e.text[1].d)),
                             "NUMERIC")>>
            ELSE <<>>
    IN  labeled \o bare

(* a variant without the continue of line 114 *)
HeightsWithoutContinue(e) ==
    LET am == AFFL_REGEX(e.text)
    IN  (IF am # None /\ InRange(IntOf(am[1]))
         THEN <<Candidate(e, IntOf(am[1]), PlusText(IntOf(am[1])), "AFFL")>>
         ELSE <<>>) \o LowerFamilies(e)

(* one iteration of the loop of find_ceiling_heights: what it appends *)
HeightsOfElement(e) ==
    LET am == AFFL_REGEX(e.text)
    IN  IF am # None /\ InRange(IntOf(am[1]))
        THEN <<Candidate(e, IntOf(am[1]), PlusText(IntOf(am[1])), "AFFL")>>
        ELSE LowerFamilies(e)

RECURSIVE find_ceiling_heights(_)
find_ceiling_heights(elems) ==
    IF elems = <<>> THEN <<>>
    ELSE HeightsOfElement(Head(elems)) \o find_ceiling_heights(Tail(elems))

find_rooms(elems) == SelectSeq(elems, LAMBDA e : ROOM_REGEX(e.text))

-----------------------------------------------------------------------------
(* The spatial matcher.  Distances are kept squared: x ** 0.5 is monotone,  *)
(* so the nearest candidate and the comparison with max_distance are those  *)
(* of the squares.                                                          *)

max_distance == 200

calculate_distance(e1, e2) ==
    (e1.x - e2.x) * (e1.x - e2.x) + (e1.y - e2.y) * (e1.y - e2.y)

(* min(heights, key=...): a later candidate replaces the best one so far   *)
(* only when its key is strictly smaller                                    *)
RECURSIVE MinFrom(_, _, _, _)
MinFrom(room, hs, i, best) ==
    IF i > Len(hs) THEN best
    ELSE MinFrom(room, hs, i + 1,
                 IF calculate_distance(room, hs[i]) < calculate_distance(room, hs[best])
                 THEN i ELSE best)

(* a variant that lets a later candidate win a tie *)
RECURSIVE MinFromLast(_, _, _, _)
MinFromLast(room, hs, i, best) ==
    IF i > Len(hs) THEN best
    ELSE MinFromLast(room, hs, i + 1,
                     IF calculate_distance(room, hs[i]) <= calculate_distance(room, hs[best])
                     THEN i ELSE best)

NearestIndexLast(room, hs) == MinFromLast(room, hs, 2, 1)

NearestIndex(room, hs) == MinFrom(room, hs, 2, 1)

(* a variant with < in place of <= *)
WithinRadiusStrict(distance) == distance < max_distance * max_distance

WithinRadius(distance) == distance <= max_distance * max_distance

NA == <<W("N/A")>>
NoNearby == <<W("N/A (No nearby height)")>>

Match(room, ceiling_height, matched_height, distance) ==
    [text |-> room.text, x |-> room.x, y |-> room.y, page |-> room.page,
     is_line |-> room.is_line, ceiling_height |-> ceiling_height,
     matched_height |-> matched_height, distance |-> distance]

MatchRoom(room, hs) ==
    IF hs = <<>> THEN Match(room, NA, None, None)
    ELSE LET nearest_height == hs[NearestIndex(room, hs)]
             distance == calculate_distance(room, nearest_height)
         IN  IF WithinRadius(distance)
             THEN Match(room, nearest_height.text, Some(nearest_height),
                        Some(distance))
             ELSE Match(room, NoNearby, None, Some(distance))

(* a variant that puts each new match in front of the earlier ones *)
RECURSIVE MatchesNewestFirst(_, _)
MatchesNewestFirst(rs, hs) ==
    IF rs = <<>> THEN <<>>
    ELSE MatchesNewestFirst(Tail(rs), hs) \o <<MatchRoom(Head(rs), hs)>>

RECURSIVE match_rooms_with_heights(_, _)
match_rooms_with_heights(rs, hs) ==
    IF rs = <<>> THEN <<>>
    ELSE <<MatchRoom(Head(rs), hs)>> \o match_rooms_with_heights(Tail(rs), hs)

-----------------------------------------------------------------------------
(* The fragment extractor.  A document is what pdfplumber makes of the      *)
(* bytes: it cannot be parsed, or it is a sequence of pages, each with the  *)
(* words of extract_words() and the lines of extract_text().split('\n')     *)
(* (no line when extract_text() is empty).                                  *)

Element(text, x, y, page, is_line) ==
    [text |-> text, x |-> x, y |-> y, page |-> page, is_line |-> is_line]

WordElements(words, page_num) ==
    [i \in 1..Len(words) |->
        Element(words[i].text, words[i].x0, words[i].top, page_num, FALSE)]

LineElements(lines, page_num) ==
    [i \in 1..Len(lines) |-> Element(lines[i], 0, (i - 1) * 20, page_num, TRUE)]

(* a variant that reads the lines of a page before its words *)
PageElementsLinesFirst(page, page_num) ==
    LineElements(page.lines, page_num) \o WordElements(page.words, page_num)

PageElements(page, page_num) ==
    WordElements(page.words, page_num) \o LineElements(page.lines, page_num)

RECURSIVE PagesFrom(_, _)
PagesFrom(pages, page_num) ==
    IF pages = <<>> THEN <<>>
    ELSE PageElements(Head(pages), page_num) \o PagesFrom(Tail(pages), page_num + 1)

(* raised: the RuntimeError of line 74 *)
extract_text_from_pdf(doc) ==
    IF doc.parse_ok
    THEN [raised |-> FALSE, value |-> PagesFrom(doc.pages, 0)]
    ELSE [raised |-> TRUE, value |-> <<>>]

-----------------------------------------------------------------------------
(* Row assembly *)

Row(drawing_title, apartment_type, room, ceiling_height, source_file) ==
    [drawing_title |-> drawing_title, apartment_type |-> apartment_type,
     room |-> room, ceiling_height |-> ceiling_height,
     source_file |-> source_file]

(* ", ".join(texts) *)
RECURSIVE Join(_)
Join(texts) ==
    IF texts = <<>> THEN <<>>
    ELSE IF Len(texts) = 1 THEN texts[1]
    ELSE texts[1] \o <<W(", ")>> \o Join(Tail(texts))

(* a variant without the slice *)
AllHeights(hs) == hs

(* heights[:3] *)
FirstThree(hs) == SubSeq(hs, 1, Min(3, Len(hs)))

MatchRows(drawing_title, apartment_type, matched_data, source_file) ==
    [i \in 1..Len(matched_data) |->
        Row(drawing_title, apartment_type, matched_data[i].text,
            matched_data[i].ceiling_height, source_file)]

AssembleRows(drawing_title, apartment_type, matched_data, hs, source_file) ==
    LET match_rows ==
            MatchRows(drawing_title, apartment_type, matched_data, source_file)
        with_heights ==
            IF match_rows = <<>> /\ hs # <<>>
            THEN <<Row(drawing_title, apartment_type,
                       <<W("Heights Found (No Room Labels)")>>,
                       Join([i \in 1..Len(FirstThree(hs)) |-> FirstThree(hs)[i].text]),
                       source_file)>>
            ELSE match_rows
    IN  IF with_heights = <<>>
        THEN <<Row(drawing_title, apartment_type,
                   <<W("No Room/Height Data Extracted")>>, NA, source_file)>>
        ELSE with_heights

NoTextRow(source_file) ==
    Row(<<W("No text found")>>, <<W("N/A")>>, <<W("No extractable text")>>, NA,
        source_file)

ErrorRow(cause, source_file) ==
    Row(<<W("Error")>>, <<W("Error")>>, cause, NA, source_file)

ParseFailed == <<W("Extraction failed: PDF parsing failed")>>

extract_from_pdf_bytes(doc, name) ==
    LET extracted == extract_text_from_pdf(doc)
        elems == extracted.value
        hs == find_ceiling_heights(elems)
    IN  IF extracted.raised THEN <<ErrorRow(ParseFailed, name)>>
        ELSE IF elems = <<>> THEN <<NoTextRow(name)>>
        ELSE AssembleRows(extract_drawing_title(elems),
                          extract_apartment_type(elems),
                          match_rooms_with_heights(find_rooms(elems), hs),
                          hs, name)

-----------------------------------------------------------------------------
(* Numerals and texts the inputs are drawn from *)

N1999 == N(<<1, 9, 9, 9>>)
N2000 == N(<<2, 0, 0, 0>>)
N2400 == N(<<2, 4, 0, 0>>)
N2500 == N(<<2, 5, 0, 0>>)
N2700 == N(<<2, 7, 0, 0>>)
N4000 == N(<<4, 0, 0, 0>>)
N4001 == N(<<4, 0, 0, 1>>)

-----------------------------------------------------------------------------
(* Documents *)

Word(text, x0, top) == [text |-> text, x0 |-> x0, top |-> top]

PagesOf(words, lines, nw, nl) ==
    {[words |-> ws, lines |-> ls] : ws \in [1..nw -> words], ls \in [1..nl -> lines]}

(* the page sequences of at most `pages` pages and `budget` fragments *)
RECURSIVE PagesWithin(_, _, _, _)
PagesWithin(words, lines, budget, pages) ==
    IF pages = 0 THEN {<<>>}
    ELSE {<<>>} \cup
         UNION {UNION {{<<pg>> \o rest :
                           pg \in PagesOf(words, lines, nw, nl),
                           rest \in PagesWithin(words, lines, budget - nw - nl,
                                                pages - 1)} :
                       nl \in 0..(budget - nw)} :
                nw \in 0..budget}

Corrupt == [parse_ok |-> FALSE, pages |-> <<>>]

Documents(words, lines) ==
    {Corrupt} \cup
    {[parse_ok |-> TRUE, pages |-> ps] :
        ps \in PagesWithin(words, lines, MaxFrags, MaxPages)}

PlanPdf == <<"plan", "pdf">>

-----------------------------------------------------------------------------
(* Spec, SpecRooms: extract_from_pdf_bytes on one document *)

(* extract_from_pdf_bytes(pdf, filename), with its locals *)
ExtractFromPdf ==
    /\ pc = "extract"
    /\ LET extracted == extract_text_from_pdf(pdf)
           classified == ~extracted.raised /\ extracted.value # <<>>
       IN  /\ text_elements' = extracted.value
           /\ title' = IF classified THEN extract_drawing_title(extracted.value)
                       ELSE <<>>
           /\ rooms' = IF classified THEN find_rooms(extracted.value) ELSE <<>>
           /\ heights' = IF classified THEN find_ceiling_heights(extracted.value)
                         ELSE <<>>
    /\ matches' = IF rooms' # <<>> THEN match_rooms_with_heights(rooms', heights')
                  ELSE <<>>
    /\ rows' = extract_from_pdf_bytes(pdf, filename)
    /\ pc' = "done"
    /\ UNCHANGED <<pdf, filename, element, scanned, files, idx, combined_data,
                   response>>

(* room labels and heights apart, and a text that is neither *)
DocWords ==
    {Word(<<W("KITCHEN")>>, 0, 0), Word(<<W("AFFL"), W("+"), N2700>>, 0, 0)}
DocLines == {<<W("RCP")>>, <<N2400>>}

Init ==
    /\ pc = "extract"
    /\ pdf \in Documents(DocWords, DocLines)
    /\ filename = PlanPdf
    /\ text_elements = <<>>
    /\ element = <<>>
    /\ scanned = 0
    /\ rooms = <<>>
    /\ heights = <<>>
    /\ matches = <<>>
    /\ title = <<>>
    /\ rows = <<>>
    /\ files = <<>>
    /\ idx = 0
    /\ combined_data = <<>>
    /\ response = <<>>

Next == ExtractFromPdf

Spec == Init /\ [][Next]_vars

(* fragments that are a room label and a height at once *)
RoomWords2 ==
    {Word(<<W("AFFL"), W("+"), N2700>>, 0, 0),
     Word(<<W("BEDROOM"), W("CH"), N2500>>, 300, 0)}
RoomLines2 == {<<W("BEDROOM"), W("CH"), N2500>>, <<W("KITCHEN")>>}

InitRooms ==
    /\ pc = "extract"
    /\ pdf \in Documents(RoomWords2, RoomLines2)
    /\ filename = PlanPdf
    /\ text_elements = <<>>
    /\ element = <<>>
    /\ scanned = 0
    /\ rooms = <<>>
    /\ heights = <<>>
    /\ matches = <<>>
    /\ title = <<>>
    /\ rows = <<>>
    /\ files = <<>>
    /\ idx = 0
    /\ combined_data = <<>>
    /\ response = <<>>

SpecRooms == InitRooms /\ [][Next]_vars

-----------------------------------------------------------------------------
(* Claims about extract_from_pdf_bytes and extract_text_from_pdf *)

Sep == <<W(", ")>>
HeightsFound == <<W("Heights Found (No Room Labels)")>>
NoData == <<W("No Room/Height Data Extracted")>>

JoinedFirstThree(hs) ==
    CASE Len(hs) = 1 -> hs[1].text
      [] Len(hs) = 2 -> hs[1].text \o Sep \o hs[2].text
      [] OTHER -> hs[1].text \o Sep \o hs[2].text \o Sep \o hs[3].text

C9_WordsBeforeLines ==
    pc = "done" =>
        \A i, j \in 1..Len(text_elements) :
            (i < j /\ text_elements[i].is_line) => text_elements[j].is_line

WordsOfPage(p) ==
    SelectSeq(text_elements, LAMBDA e : e.page = p /\ ~e.is_line)
LinesOfPage(p) ==
    SelectSeq(text_elements, LAMBDA e : e.page = p /\ e.is_line)

(* C9, amended: the list is ordered by page; within one page the word       *)
(* fragments precede the line fragments; the words and the lines of a page  *)
(* are those of the document, in their order, a line at (0, 20 * index).    *)
C9_WordsBeforeLinesPerPage ==
    (pc = "done" /\ pdf.parse_ok) =>
        /\ \A i, j \in 1..Len(text_elements) :
               i < j =>
                   /\ text_elements[i].page <= text_elements[j].page
                   /\ (/\ text_elements[i].page = text_elements[j].page
                       /\ text_elements[i].is_line) => text_elements[j].is_line
        /\ \A e \in {text_elements[i] : i \in 1..Len(text_elements)} :
               e.page \in 0..(Len(pdf.pages) - 1)
        /\ \A p \in 0..(Len(pdf.pages) - 1) :
               /\ Len(WordsOfPage(p)) = Len(pdf.pages[p + 1].words)
               /\ \A k \in 1..Len(WordsOfPage(p)) :
                      /\ WordsOfPage(p)[k].text = pdf.pages[p + 1].words[k].text
                      /\ WordsOfPage(p)[k].x = pdf.pages[p + 1].words[k].x0
                      /\ WordsOfPage(p)[k].y = pdf.pages[p + 1].words[k].top
               /\ Len(LinesOfPage(p)) = Len(pdf.pages[p + 1].lines)
               /\ \A k \in 1..Len(LinesOfPage(p)) :
                      /\ LinesOfPage(p)[k].text = pdf.pages[p + 1].lines[k]
                      /\ LinesOfPage(p)[k].x = 0
                      /\ LinesOfPage(p)[k].y = 20 * (k - 1)

(* a line of the first page comes before a word of the second *)
C9_Witness ==
    /\ pc = "done"
    /\ \E i, j \in 1..Len(text_elements) :
           /\ i < j
           /\ text_elements[i].is_line /\ text_elements[i].page = 0
           /\ ~text_elements[j].is_line /\ text_elements[j].page = 1

FirstAtPoint(hs, x, y) ==
    CHOOSE k \in 1..Len(hs) :
        /\ hs[k].x = x /\ hs[k].y = y
        /\ \A l \in 1..(k - 1) : ~(hs[l].x = x /\ hs[l].y = y)

(* C10: a fragment that is a room candidate and the source of a height      *)
(* candidate is matched at distance 0 with the first height candidate at    *)
(* its own coordinates, and its row's Ceiling Height is that candidate's    *)
(* display text, never one of the two N/A literals.                         *)
C10_RoomWithOwnHeight ==
    pc = "done" =>
        \A i \in 1..Len(rooms) :
            HeightsOfElement(rooms[i]) # <<>> =>
                /\ matches[i].matched_height # None
                /\ matches[i].distance = Some(0)
                /\ matches[i].matched_height[1].x = rooms[i].x
                /\ matches[i].matched_height[1].y = rooms[i].y
                /\ matches[i].matched_height[1] =
                       heights[FirstAtPoint(heights, rooms[i].x, rooms[i].y)]
                /\ rows[i].room = rooms[i].text
                /\ rows[i].ceiling_height = matches[i].matched_height[1].text
                /\ rows[i].ceiling_height \notin {NA, NoNearby}

(* such a room among other rooms and heights, matched with the height of    *)
(* another fragment at the same place *)
C10_Witness ==
    /\ pc = "done"
    /\ Len(rooms) > 1
    /\ Len(heights) > 2
    /\ \E i \in 1..Len(rooms) :
           /\ HeightsOfElement(rooms[i]) # <<>>
           /\ matches[i].matched_height # None
           /\ matches[i].matched_height[1].matched_pattern = "AFFL"
    /\ \E i \in 1..Len(rooms) :
           /\ HeightsOfElement(rooms[i]) # <<>>
           /\ rooms[i].x = 300

-----------------------------------------------------------------------------
(* SpecMatch: match_rooms_with_heights on lists of rooms and of heights *)

MatchPoints == {<<200, 0>>, <<120, 160>>, <<0, 201>>}

MatchRoomSet ==
    {Element(t, p[1], p[2], 1, FALSE) :
        t \in {<<W("KITCHEN")>>, <<W("BATH")>>}, p \in {<<0, 0>>, <<0, 401>>}}

MatchHeightSet ==
    {Candidate(Element(<<>>, p[1], p[2], 0, FALSE), 2700, PlusText(2700), "AFFL") :
        p \in MatchPoints}
    \cup
    {Candidate(Element(<<>>, p[1], p[2], 1, TRUE), 2500, MmText(2500), "HEIGHT") :
        p \in MatchPoints}

InitMatch ==
    /\ pc = "match"
    /\ rooms \in SeqsUpTo(MatchRoomSet, MaxRooms)
    /\ heights \in SeqsUpTo(MatchHeightSet, MaxHeights)
    /\ matches = <<>>
    /\ pdf = Corrupt
    /\ filename = PlanPdf
    /\ text_elements = <<>>
    /\ element = <<>>
    /\ scanned = 0
    /\ title = <<>>
    /\ rows = <<>>
    /\ files = <<>>
    /\ idx = 0
    /\ combined_data = <<>>
    /\ response = <<>>

DoMatch ==
    /\ pc = "match"
    /\ matches' = match_rooms_with_heights(rooms, heights)
    /\ pc' = "done"
    /\ UNCHANGED <<pdf, filename, text_elements, element, scanned, rooms, heights,
                   title, rows, files, idx, combined_data, response>>

NextMatch == DoMatch

SpecMatch == InitMatch /\ [][NextMatch]_vars

(* C1: one match per room, in the order of the rooms, the i-th match with   *)
(* the text and the coordinates of the i-th room.                           *)
C1_OneMatchPerRoom ==
    pc = "done" =>
        /\ Len(matches) = Len(rooms)
        /\ \A i \in 1..Len(rooms) :
               /\ matches[i].text = rooms[i].text
               /\ matches[i].x = rooms[i].x
               /\ matches[i].y = rooms[i].y
               /\ matches[i].page = rooms[i].page

(* two different rooms, the first without and the second with a height      *)
C1_Witness ==
    /\ pc = "done"
    /\ Len(rooms) = MaxRooms
    /\ rooms[1] # rooms[2]
    /\ matches[1].matched_height = None
    /\ matches[2].matched_height # None

SqDistances(room, hs) == {calculate_distance(room, hs[k]) : k \in 1..Len(hs)}
MinSqDistance(room, hs) ==
    CHOOSE d \in SqDistances(room, hs) : \A e \in SqDistances(room, hs) : d <= e

(* C2: with d the least distance of the room to a height: d <= 200 gives    *)
(* a height at distance d, its display text as Ceiling Height, and d;       *)
(* d > 200 gives no height, "N/A (No nearby height)" and d; no height at    *)
(* all gives no height, no distance and "N/A".                              *)
C2_RadiusDecides ==
    pc = "done" =>
        \A i \in 1..Len(matches) :
            IF heights = <<>>
            THEN /\ matches[i].matched_height = None
                 /\ matches[i].distance = None
                 /\ matches[i].ceiling_height = NA
            ELSE LET d == MinSqDistance(rooms[i], heights)
                 IN  /\ matches[i].distance = Some(d)
                     /\ d <= 200 * 200 =>
                            /\ matches[i].matched_height # None
                            /\ \E k \in 1..Len(heights) :
                                   matches[i].matched_height = Some(heights[k])
                            /\ calculate_distance(
                                   rooms[i], matches[i].matched_height[1]) = d
                            /\ matches[i].ceiling_height =
                                   matches[i].matched_height[1].text
                     /\ d > 200 * 200 =>
                            /\ matches[i].matched_height = None
                            /\ matches[i].ceiling_height = NoNearby

(* one room at exactly 200 of its nearest height, one further away *)
C2_Witness ==
    /\ pc = "done"
    /\ \E i \in 1..Len(matches) :
           /\ matches[i].distance = Some(200 * 200)
           /\ matches[i].matched_height # None
    /\ \E i \in 1..Len(matches) :
           /\ matches[i].distance # None
           /\ matches[i].matched_height = None

FirstNearest(room, hs) ==
    CHOOSE k \in 1..Len(hs) :
        /\ calculate_distance(room, hs[k]) = MinSqDistance(room, hs)
        /\ \A l \in 1..(k - 1) :
               calculate_distance(room, hs[l]) # MinSqDistance(room, hs)

(* C3: the height of a match is the candidate of least index among those    *)
(* at the least distance, whatever the pages of the room and the            *)
(* candidates are.                                                          *)
C3_FirstNearest ==
    (pc = "done" /\ heights # <<>>) =>
        \A i \in 1..Len(matches) :
            LET k == FirstNearest(rooms[i], heights)
            IN  IF calculate_distance(rooms[i], heights[k]) <= 200 * 200
                THEN matches[i].matched_height = Some(heights[k])
                ELSE matches[i].matched_height = None

(* two different candidates at the same distance of a room, the first on    *)
(* another page than the room *)
C3_Witness ==
    /\ pc = "done"
    /\ Len(heights) > 1
    /\ heights[1] # heights[2]
    /\ \E i \in 1..Len(rooms) :
           /\ calculate_distance(rooms[i], heights[1]) =
                  calculate_distance(rooms[i], heights[2])
           /\ heights[1].page # rooms[i].page
           /\ heights[2].page = rooms[i].page
           /\ matches[i].matched_height = Some(heights[1])

-----------------------------------------------------------------------------
(* SpecHeights: the loop of find_ceiling_heights over the lines of a page,  *)
(* then the matcher and the row assembly on what it found                   *)

HeightTokens == {W("AFFL"), W("CH"), N1999, N2000, N4000, N4001}
HeightTexts == SeqsUpTo(HeightTokens, MaxTokens)

ScanRooms ==
    {<<>>, <<Element(<<W("KITCHEN")>>, 0, 0, 0, FALSE)>>,
     <<Element(<<W("BATH")>>, 0, 400, 0, FALSE)>>}

InitHeights ==
    /\ pc = "for"
    /\ element = <<>>
    /\ scanned = 0
    /\ heights = <<>>
    /\ rooms = <<>>
    /\ matches = <<>>
    /\ rows = <<>>
    /\ pdf = Corrupt
    /\ filename = PlanPdf
    /\ text_elements = <<>>
    /\ title = <<>>
    /\ files = <<>>
    /\ idx = 0
    /\ combined_data = <<>>
    /\ response = <<>>

(* line 102: the next element, the next line of the page *)
ForElement ==
    /\ pc = "for"
    /\ scanned < MaxScan
    /\ \E text \in HeightTexts :
           element' = <<Element(text, 0, scanned * 20, 0, TRUE)>>
    /\ pc' = "body"
    /\ UNCHANGED <<pdf, filename, text_elements, scanned, rooms, heights, matches,
                   title, rows, files, idx, combined_data, response>>

(* lines 103-133: the three tests of the loop body *)
TestPatterns ==
    /\ pc = "body"
    /\ heights' = heights \o HeightsOfElement(element[1])
    /\ pc' = "tested"
    /\ UNCHANGED <<pdf, filename, text_elements, element, scanned, rooms, matches,
                   title, rows, files, idx, combined_data, response>>

(* the continue of line 114 or the end of the body *)
Continue ==
    /\ pc = "tested"
    /\ element' = <<>>
    /\ scanned' = scanned + 1
    /\ pc' = "for"
    /\ UNCHANGED <<pdf, filename, text_elements, rooms, heights, matches, title,
                   rows, files, idx, combined_data, response>>

(* line 134 *)
FindHeightsReturn ==
    /\ pc = "for"
    /\ pc' = "classified"
    /\ scanned' = 0
    /\ UNCHANGED <<pdf, filename, text_elements, element, rooms, heights, matches,
                   title, rows, files, idx, combined_data, response>>

(* lines 191-221 *)
MatchAndAssemble ==
    /\ pc = "classified"
    /\ \E rs \in ScanRooms :
           /\ rooms' = rs
           /\ matches' = match_rooms_with_heights(rs, heights)
           /\ rows' = AssembleRows(<<W("Unknown Drawing")>>, <<W("Unknown Type")>>,
                                   match_rooms_with_heights(rs, heights), heights,
                                   filename)
    /\ pc' = "done"
    /\ UNCHANGED <<pdf, filename, text_elements, element, scanned, heights, title,
                   files, idx, combined_data, response>>

NextHeights ==
    \/ ForElement
    \/ TestPatterns
    \/ Continue
    \/ FindHeightsReturn
    \/ MatchAndAssemble

SpecHeights == InitHeights /\ [][NextHeights]_vars

NumeralsOf(text) == {IntOf(text[i].d) : i \in {j \in 1..Len(text) : IsNum(text[j])}}

(* C4: the value of every height candidate is in 2000..4000, and so is      *)
(* every number of its display text, of a match's height and of a row's     *)
(* Ceiling Height.                                                          *)
C4_ValueInRange ==
    /\ \A i \in 1..Len(heights) :
           /\ 2000 <= heights[i].val /\ heights[i].val <= 4000
           /\ NumeralsOf(heights[i].text) = {heights[i].val}
    /\ \A i \in 1..Len(matches) :
           /\ matches[i].matched_height # None =>
                  /\ 2000 <= matches[i].matched_height[1].val
                  /\ matches[i].matched_height[1].val <= 4000
           /\ \A v \in NumeralsOf(matches[i].ceiling_height) :
                  2000 <= v /\ v <= 4000
    /\ \A i \in 1..Len(rows) :
           \A v \in NumeralsOf(rows[i].ceiling_height) : 2000 <= v /\ v <= 4000

(* after a candidate of value 4000, a fragment whose AFFL match is 4001     *)
(* has added nothing *)
C4_Witness ==
    /\ pc = "tested"
    /\ scanned = 1
    /\ AFFL_REGEX(element[1].text) = Some(<<4, 0, 0, 1>>)
    /\ Len(heights) = 1
    /\ heights[1].val = 4000

(* the candidates the fragment at hand has added: those at its own place *)
Mine == SelectSeq(heights, LAMBDA h : h.y = element[1].y)

Valid(match) == match # None /\ 2000 <= IntOf(match[1]) /\ IntOf(match[1]) <= 4000

BareMatch(text) == IF NumericMatch(text) THEN Some(text[1].d) ELSE None

AfflCandidate(e) ==
    [text |-> <<W("+"), N(AFFL_REGEX(e.text)[1])>>, x |-> e.x, y |-> e.y,
     page |-> e.page, is_line |-> e.is_line,
     val |-> IntOf(AFFL_REGEX(e.text)[1]), matched_pattern |-> "AFFL"]

MmCandidate(e, digits, pattern) ==
    [text |-> <<N(digits), W("mm")>>, x |-> e.x, y |-> e.y, page |-> e.page,
     is_line |-> e.is_line, val |-> IntOf(digits), matched_pattern |-> pattern]

(* C5 as claimed: the candidate of a fragment is that of the first family   *)
(* that matches its text, and there is none when the value that family      *)
(* captures is out of range.                                                *)
C5_FirstMatchingFamilyOnly ==
    pc = "tested" =>
        LET e == element[1]
        IN  Mine =
                IF AFFL_REGEX(e.text) # None
                THEN IF Valid(AFFL_REGEX(e.text)) THEN <<AfflCandidate(e)>> ELSE <<>>
                ELSE IF HEIGHT_REGEX(e.text) # None
                THEN IF Valid(HEIGHT_REGEX(e.text))
                     THEN <<MmCandidate(e, HEIGHT_REGEX(e.text)[1], "HEIGHT")>>
                     ELSE <<>>
                ELSE IF Valid(BareMatch(e.text))
                THEN <<MmCandidate(e, e.text[1].d, "NUMERIC")>>
                ELSE <<>>

(* C5, amended: a fragment adds at most one candidate, that of the first    *)
(* family (AFFL, LABELED, BARE_NUMERIC) whose match captures a value in     *)
(* 2000..4000; a family whose match is out of range is passed over.  An     *)
(* AFFL match in range gives the display "+<value>".                        *)
C5_FirstFamilyInRange ==
    pc = "tested" =>
        LET e == element[1]
        IN  /\ Len(Mine) <= 1
            /\ Len(heights) <= scanned + 1
            /\ Mine =
                   IF Valid(AFFL_REGEX(e.text)) THEN <<AfflCandidate(e)>>
                   ELSE IF Valid(HEIGHT_REGEX(e.text))
                   THEN <<MmCandidate(e, HEIGHT_REGEX(e.text)[1], "HEIGHT")>>
                   ELSE IF Valid(BareMatch(e.text))
                   THEN <<MmCandidate(e, e.text[1].d, "NUMERIC")>>
                   ELSE <<>>

(* a fragment such as "AFFL 1999 CH 2000": the AFFL match is out of range   *)
(* and the labeled candidate is added *)
C5_Witness ==
    /\ pc = "tested"
    /\ AFFL_REGEX(element[1].text) # None
    /\ ~Valid(AFFL_REGEX(element[1].text))
    /\ Valid(HEIGHT_REGEX(element[1].text))
    /\ Len(Mine) = 1
    /\ Mine[1].matched_pattern = "HEIGHT"

-----------------------------------------------------------------------------
(* SpecTitle: extract_drawing_title on a fragment list *)

TitleTexts ==
    {<<W("TITLE"), W(":"), W("UNIT")>>,
     <<W("TITLE"), W("RCP")>>,
     <<W("RCP"), W("TITLE"), W("UNIT")>>,
     <<W("RCP")>>,
     <<W("FLOOR"), W("PLAN")>>,
     <<W("TITLE")>>,
     <<W("UNIT")>>}

TitleElements == {Element(t, 0, 0, 0, FALSE) : t \in TitleTexts}

InitTitle ==
    /\ pc = "title"
    /\ text_elements \in SeqsUpTo(TitleElements, MaxTitleElems)
    /\ title = <<>>
    /\ pdf = Corrupt
    /\ filename = PlanPdf
    /\ element = <<>>
    /\ scanned = 0
    /\ rooms = <<>>
    /\ heights = <<>>
    /\ matches = <<>>
    /\ rows = <<>>
    /\ files = <<>>
    /\ idx = 0
    /\ combined_data = <<>>
    /\ response = <<>>

DoTitle ==
    /\ pc = "title"
    /\ title' = extract_drawing_title(text_elements)
    /\ pc' = "done"
    /\ UNCHANGED <<pdf, filename, text_elements, element, scanned, rooms, heights,
                   matches, rows, files, idx, combined_data, response>>

NextTitle == DoTitle

SpecTitle == InitTitle /\ [][NextTitle]_vars

Labelled(i) == DRAWING_TITLE_REGEX(text_elements[i].text) # None
Keyworded(i) == PlanKeyword(text_elements[i].text)
Least(S) == CHOOSE i \in S : \A j \in S : i <= j
Indices == 1..Len(text_elements)

(* C6 as claimed: the captured group of the first fragment with the title   *)
(* label when there is one anywhere in the list, else the text of the       *)
(* first fragment with a plan keyword, else "Unknown Drawing".              *)
C6_LabelBeforeKeywords ==
    pc = "done" =>
        title =
            IF \E i \in Indices : Labelled(i)
            THEN DRAWING_TITLE_REGEX(
                     text_elements[Least({i \in Indices : Labelled(i)})].text)[1]
            ELSE IF \E i \in Indices : Keyworded(i)
            THEN text_elements[Least({i \in Indices : Keyworded(i)})].text
            ELSE <<W("Unknown Drawing")>>

(* C6, amended: the first fragment with the title label or a plan keyword   *)
(* decides: its captured group when it has the label, else its whole text;  *)
(* "Unknown Drawing" when no fragment has either.                           *)
C6_FirstFragmentDecides ==
    pc = "done" =>
        LET hits == {i \in Indices : Labelled(i) \/ Keyworded(i)}
        IN  title =
                IF hits = {} THEN <<W("Unknown Drawing")>>
                ELSE IF Labelled(Least(hits))
                THEN DRAWING_TITLE_REGEX(text_elements[Least(hits)].text)[1]
                ELSE text_elements[Least(hits)].text

(* a keyword fragment before a fragment with the label, and the keyword     *)
(* fragment's text as the title *)
C6_Witness ==
    /\ pc = "done"
    /\ Len(text_elements) > 1
    /\ Keyworded(1) /\ ~Labelled(1)
    /\ Labelled(2)
    /\ title = text_elements[1].text

-----------------------------------------------------------------------------
(* SpecBatch: api_extract on the files of one request.  A file name is the  *)
(* sequence of its parts between dots.                                      *)

ALLOWED_EXTENSIONS == {"pdf"}

Lower(part) == IF part \in {"PDF", "Pdf"} THEN "pdf" ELSE part

allowed_file(name) ==
    Len(name) > 1 /\ Lower(name[Len(name)]) \in ALLOWED_EXTENSIONS

File(name, read_ok, doc) == [filename |-> name, read_ok |-> read_ok, doc |-> doc]

EmptyDoc == [parse_ok |-> TRUE, pages |-> <<>>]
RoomDoc ==
    [parse_ok |-> TRUE,
     pages |-> <<[words |-> <<Word(<<W("KITCHEN")>>, 0, 0)>>,
                  lines |-> <<<<W("BEDROOM"), W("CH"), N2500>>>>]>>]
HeightsDoc ==
    [parse_ok |-> TRUE,
     pages |-> <<[words |-> <<Word(<<W("AFFL"), W("+"), N2700>>, 0, 0)>>,
                  lines |-> <<>>]>>]

FileSet ==
    {File(n, TRUE, d) :
        n \in {<<"a", "pdf">>, <<"b", "PDF">>},
        d \in {Corrupt, EmptyDoc, RoomDoc, HeightsDoc}}
    \cup
    {File(<<"c", "txt">>, TRUE, RoomDoc), File(<<"">>, TRUE, EmptyDoc),
     File(<<"a", "pdf">>, FALSE, EmptyDoc)}

InitBatch ==
    /\ pc = "request"
    /\ files \in SeqsUpTo(FileSet, MaxFiles)
    /\ idx = 0
    /\ combined_data = <<>>
    /\ response = <<>>
    /\ pdf = Corrupt
    /\ filename = <<>>
    /\ text_elements = <<>>
    /\ element = <<>>
    /\ scanned = 0
    /\ rooms = <<>>
    /\ heights = <<>>
    /\ matches = <<>>
    /\ title = <<>>
    /\ rows = <<>>

BadRequest(error) == [status |-> 400, error |-> error, rows |-> <<>>]

(* lines 237-244 *)
Validate ==
    /\ pc = "request"
    /\ IF files = <<>>
       THEN /\ response' = BadRequest("No files provided")
            /\ pc' = "done"
            /\ idx' = idx
       ELSE IF files[1].filename = <<"">>
       THEN /\ response' = BadRequest("No files selected")
            /\ pc' = "done"
            /\ idx' = idx
       ELSE /\ response' = response
            /\ pc' = "loop"
            /\ idx' = 1
    /\ UNCHANGED <<pdf, filename, text_elements, element, scanned, rooms, heights,
                   matches, title, rows, files, combined_data>>

ReadFailed == <<W("read failed")>>

(* a variant in which a failing file leaves no row *)
FrameOrNothing(file) ==
    IF file.read_ok /\ file.doc.parse_ok
    THEN extract_from_pdf_bytes(file.doc, file.filename)
    ELSE <<>>

(* lines 249-260: the data frame of one accepted file *)
FrameOf(file) ==
    IF file.read_ok THEN extract_from_pdf_bytes(file.doc, file.filename)
    ELSE <<ErrorRow(ReadFailed, file.filename)>>

(* lines 246-260: one iteration of the loop over the files *)
ProcessFile ==
    /\ pc = "loop"
    /\ idx <= Len(files)
    /\ combined_data' =
           IF files[idx].filename # <<"">> /\ allowed_file(files[idx].filename)
           THEN Append(combined_data, FrameOf(files[idx]))
           ELSE combined_data
    /\ idx' = idx + 1
    /\ UNCHANGED <<pc, pdf, filename, text_elements, element, scanned, rooms,
                   heights, matches, title, rows, files, response>>

(* lines 262-288: pd.concat of the frames; the workbook holds final_df *)
Respond ==
    /\ pc = "loop"
    /\ idx > Len(files)
    /\ response' =
           IF combined_data = <<>> THEN BadRequest("No valid files processed")
           ELSE [status |-> 200, error |-> "", rows |-> Flatten(combined_data)]
    /\ pc' = "done"
    /\ UNCHANGED <<pdf, filename, text_elements, element, scanned, rooms, heights,
                   matches, title, rows, files, idx, combined_data>>

NextBatch == Validate \/ ProcessFile \/ Respond

SpecBatch == InitBatch /\ [][NextBatch]_vars

(* the accepted files among those the loop has passed *)
Accepted ==
    SelectSeq(SubSeq(files, 1, idx - 1), LAMBDA f : allowed_file(f.filename))

Failing(file) == ~file.read_ok \/ ~file.doc.parse_ok

RECURSIVE RowsInOrder(_, _)
RowsInOrder(frames, k) ==
    IF k > Len(frames) THEN <<>>
    ELSE [i \in 1..(Len(frames[k]) + Len(RowsInOrder(frames, k + 1))) |->
             IF i <= Len(frames[k]) THEN frames[k][i]
             ELSE RowsInOrder(frames, k + 1)[i - Len(frames[k])]]

(* C8: every accepted file gives one frame, in the order of submission,     *)
(* with at least one row, all rows with the file's name; the frame of a     *)
(* file that cannot be read or parsed is the single row Error / Error /     *)
(* cause / N/A; the frame of any other file is free of Error rows and is    *)
(* what the file gives alone, whatever its siblings are; the answer holds   *)
(* the rows of the frames, frame after frame.                               *)
C8_FailureIsolated ==
    pc \in {"loop", "done"} /\ idx > 0 =>
        /\ Len(combined_data) = Len(Accepted)
        /\ \A k \in 1..Len(Accepted) :
               /\ combined_data[k] # <<>>
               /\ \A i \in 1..Len(combined_data[k]) :
                      combined_data[k][i].source_file = Accepted[k].filename
               /\ Failing(Accepted[k]) =>
                      /\ Len(combined_data[k]) = 1
                      /\ combined_data[k][1].drawing_title = <<W("Error")>>
                      /\ combined_data[k][1].apartment_type = <<W("Error")>>
                      /\ combined_data[k][1].room \in {ParseFailed, ReadFailed}
                      /\ combined_data[k][1].ceiling_height = <<W("N/A")>>
               /\ ~Failing(Accepted[k]) =>
                      /\ \A i \in 1..Len(combined_data[k]) :
                             combined_data[k][i].drawing_title # <<W("Error")>>
                      /\ combined_data[k] =
                             extract_from_pdf_bytes(Accepted[k].doc,
                                                    Accepted[k].filename)
        /\ pc = "done" =>
               IF Accepted = <<>> THEN response.status = 400
               ELSE /\ response.status = 200
                    /\ response.rows = RowsInOrder(combined_data, 1)

(* a batch of a document that cannot be parsed and one that can: the Error  *)
(* row of the first, then the rows of the second *)
C8_Witness ==
    /\ pc = "done"
    /\ Len(files) = 2
    /\ Len(Accepted) = 2
    /\ ~files[1].doc.parse_ok /\ files[1].read_ok
    /\ files[2].doc = RoomDoc /\ files[2].read_ok
    /\ response.status = 200
    /\ Len(response.rows) = 3
    /\ response.rows[1].drawing_title = <<W("Error")>>
    /\ response.rows[2].room = <<W("KITCHEN")>>
    /\ response.rows[2].source_file = files[2].filename

=============================================================================
